---- MODULE Spec2Model ----
(***************************************************************************)
(* Permission-set reconciliation of the Dependency-Track Terraform         *)
(* provider: the team-permissions and managed-user-permissions resources.  *)
(* Each remote call of a handler is one step, so that another client of    *)
(* the server can write between two calls of the same invocation.          *)
(* The config-property, team-API-key and notification-rule resources have  *)
(* their own specifications; each of their handlers is one step.           *)
(***************************************************************************)
EXTENDS FiniteSets, Integers, Sequences, TLC

\* ------------------------------------------------------------------------
\* Bounds
\* ------------------------------------------------------------------------
MaxInvocations == 3
MaxExternal == 1

\* Three of the permission names the server knows.
Perms == {"BOM_UPLOAD", "VIEW_PORTFOLIO", "PORTFOLIO_MANAGEMENT"}

\* Underlying transport/status errors a remote call can return.
Errs == {"status 404", "status 500"}

\* The two resources that own a holder's complete permission set.
Kinds == {"team", "user"}

\* Holder identifiers handed to a handler: a team is named by a UUID string,
\* a managed user by its username (never parsed).
GoodUUID == "6ba7b810-9dad-11d1-80b4-00c04fd430c8"
HolderIds(k) == IF k = "team" THEN {GoodUUID, "not-a-uuid"} ELSE {"alice"}

\* ------------------------------------------------------------------------
\* Helpers
\* ------------------------------------------------------------------------
Range(s) == {s[i] : i \in 1..Len(s)}

\* The order in which ElementsAs hands out the elements of a set value.
Orderings(S) == {s \in [1..Cardinality(S) -> S] : Range(s) = S}

\* Desired permissions as read from the plan: distinct names, any order.
DesiredLists == UNION {Orderings(S) : S \in SUBSET Perms}

\* Variant of ParseHolder: the identifier is not checked.
ParseHolder_AcceptAll(k, id) == TRUE

\* uuid.Parse of the team attribute; a username is used as is.
ParseHolder(k, id) == k = "user" \/ id = GoodUUID

NoDiag == [summary |-> "", verb |-> "", perm |-> "", err |-> ""]

\* Variant of ClientError: the failure of the re-read is not reported.
ClientError_SwallowRead(verb, permName, err) ==
    IF verb = "read" THEN NoDiag
    ELSE [summary |-> "Client Error", verb |-> verb, perm |-> permName, err |-> err]

\* Variant of ClientError: a generic message that names no permission.
ClientError_Generic(verb, permName, err) ==
    [summary |-> "Client Error", verb |-> verb, perm |-> "", err |-> err]

\* resp.Diagnostics.AddError("Client Error", "Unable to <verb> permission
\* <perm> ..., got error: <err>")
ClientError(verb, permName, err) ==
    [summary |-> "Client Error", verb |-> verb, perm |-> permName, err |-> err]

ParseError == [summary |-> "Invalid Team UUID", verb |-> "parse", perm |-> "", err |-> "invalid UUID"]

\* Variant of ToAdd: the currentMap check is missing.
ToAdd_NoFilter(d, c) == d

\* Variant of ToAdd: the loop leaves out its last iteration.
ToAdd_SkipLast(d, c) ==
    LET r == SelectSeq(d, LAMBDA p : p \notin Range(c))
    IN  IF r = <<>> THEN r ELSE SubSeq(r, 1, Len(r) - 1)

\* Loop "for permName in desired: if !currentMap[permName] { add }".
ToAdd(d, c) == SelectSeq(d, LAMBDA p : p \notin Range(c))

\* Variant of ToRemove: the desiredMap check is missing.
ToRemove_NoFilter(d, c) == c

\* Variant of ToRemove: the loop starts at the second element.
ToRemove_SkipFirst(d, c) ==
    LET r == SelectSeq(c, LAMBDA p : p \notin Range(d))
    IN  IF r = <<>> THEN r ELSE Tail(r)

\* Loop "for permName in current: if !desiredMap[permName] { remove }".
ToRemove(d, c) == SelectSeq(c, LAMBDA p : p \notin Range(d))

\* Variant of PlanFor: Delete leaves the first recorded permission alone.
PlanFor_DeleteSkipsFirst(o, d, c) ==
    CASE o = "Create" -> [add |-> d, remove |-> <<>>]
      [] o = "Update" -> [add |-> ToAdd(d, c), remove |-> ToRemove(d, c)]
      [] o = "Delete" -> [add |-> <<>>, remove |-> IF c = <<>> THEN c ELSE Tail(c)]

\* Variant of PlanFor: Create leaves its loop after the first grant.
PlanFor_CreateGrantsFirstOnly(o, d, c) ==
    CASE o = "Create" -> [add |-> IF d = <<>> THEN d ELSE <<d[1]>>, remove |-> <<>>]
      [] o = "Update" -> [add |-> ToAdd(d, c), remove |-> ToRemove(d, c)]
      [] o = "Delete" -> [add |-> <<>>, remove |-> c]

\* Variant of PlanFor: Delete's loop leaves out its last iteration.
PlanFor_DeleteSkipsLast(o, d, c) ==
    CASE o = "Create" -> [add |-> d, remove |-> <<>>]
      [] o = "Update" -> [add |-> ToAdd(d, c), remove |-> ToRemove(d, c)]
      [] o = "Delete" -> [add |-> <<>>, remove |-> IF c = <<>> THEN c ELSE SubSeq(c, 1, Len(c) - 1)]

\* The grant and revoke calls a handler goes through, in order.
PlanFor(o, d, c) ==
    CASE o = "Create" -> [add |-> d, remove |-> <<>>]
      [] o = "Update" -> [add |-> ToAdd(d, c), remove |-> ToRemove(d, c)]
      [] o = "Delete" -> [add |-> <<>>, remove |-> c]

\* Variant of Position: a handler with nothing to grant or revoke returns
\* without the re-read.
Position_SkipFetchWhenNoop(o, ph, i, pl) ==
    LET end == IF o = "Delete" \/ Len(pl.add) + Len(pl.remove) = 0
               THEN <<"done", 0>> ELSE <<"fetch", 0>>
    IN  IF ph = "add" /\ i <= Len(pl.add) THEN <<"add", i>>
        ELSE IF ph = "add"
             THEN (IF Len(pl.remove) >= 1 THEN <<"remove", 1>> ELSE end)
             ELSE IF i <= Len(pl.remove) THEN <<"remove", i>> ELSE end

\* Where a handler stands once it is about to do iteration i of loop ph:
\* the add loop, then the remove loop, then the re-read (none in Delete).
Position(o, ph, i, pl) ==
    LET end == IF o = "Delete" THEN <<"done", 0>> ELSE <<"fetch", 0>>
    IN  IF ph = "add" /\ i <= Len(pl.add) THEN <<"add", i>>
        ELSE IF ph = "add"
             THEN (IF Len(pl.remove) >= 1 THEN <<"remove", 1>> ELSE end)
             ELSE IF i <= Len(pl.remove) THEN <<"remove", i>> ELSE end

\* Variant of AfterError: the return is missing, the loop goes on.
AfterError_Continue(o, ph, i, pl) == Position(o, ph, i + 1, pl)

\* Variant of AfterError: the failed call is tried again.
AfterError_Retry(o, ph, i, pl) == <<ph, i>>

\* Variant of AfterError: after a failed call the handler goes to the re-read.
AfterError_SkipToFetch(o, ph, i, pl) ==
    IF o = "Delete" THEN <<"done", 0>> ELSE <<"fetch", 0>>

\* "AddError(...); return" after a failed call.
AfterError(o, ph, i, pl) == <<"done", 0>>

\* What a grant or revoke call can come back with.  "ok" took effect,
\* "ignored" returned a success status without effect (the server rejected
\* the entry silently), "fail" returned an error.
CallOutcomes(exists) ==
    {[res |-> "fail", err |-> e] : e \in Errs}
      \cup (IF exists THEN {[res |-> "ok", err |-> ""], [res |-> "ignored", err |-> ""]}
            ELSE {})

\* What the read of the holder can come back with.  For a holder that is
\* gone, getUserPermissions returns (nil, nil); Team.Get returns an error or
\* a team without UUID (the handlers test for both answers).
FetchOutcomes(k, exists, srv) ==
    {[res |-> "fail", err |-> e, found |-> FALSE, perms |-> {}] : e \in Errs}
      \cup (IF exists THEN {[res |-> "ok", err |-> "", found |-> TRUE, perms |-> srv]}
            ELSE {[res |-> "ok", err |-> "", found |-> FALSE, perms |-> {}]})

\* Variant of HolderGone: the test is missing, the answer is written to state.
HolderGone_Never(fetched) == FALSE

\* Read's test "team.UUID == uuid.Nil" / "permissions == nil".
HolderGone(fetched) == ~fetched.found

\* Variant of StateAfterFetch: the plan's set is written back.
StateAfterFetch_Desired(fetched, d) == d

\* Variant of StateAfterFetch: of the server's answer, only the permissions
\* of the plan are written back.
StateAfterFetch_OnlyDesired(fetched, d) == fetched.perms \cap d

\* Variant of StateAfterFetch: when the answer carries no holder the plan's
\* set is written back.
StateAfterFetch_DesiredWhenGone(fetched, d) == IF fetched.found THEN fetched.perms ELSE d

\* The set written to state after the re-read: the server's answer.
StateAfterFetch(fetched, d) == fetched.perms

\* How the holder came to have permission p when Delete issues the revoke
\* call for it: granted by the resource, there without the resource, or not there.
HeldAs(p, srv, own) ==
    IF p \in own THEN "own" ELSE IF p \in srv THEN "foreign" ELSE "absent"

NoFetch == [res |-> "none", err |-> "", found |-> FALSE, perms |-> {}]

\* The null value of an optional attribute.
Null == "null"

\* The config-property resource before anything happened: no such property
\* on the server, nothing in state.
CpNone ==
    [exists |-> FALSE, type |-> "", value |-> "",
     inState |-> FALSE, recValue |-> "", recType |-> "",
     op |-> "none", cfg |-> Null, calls |-> <<>>, diag |-> "",
     before |-> [exists |-> FALSE, value |-> ""]]

\* No API key: what the server returns for the key after its creation.
NoKey == [prefix |-> "", id |-> 0]

\* The team-API-key resource before anything happened.
AkNone ==
    [keys |-> {}, srvComment |-> "", n |-> 0,
     inState |-> FALSE, recId |-> 0, recKey |-> NoKey, recComment |-> Null,
     genKey |-> NoKey, since |-> {},
     op |-> "none", calls |-> <<>>, diag |-> ""]

\* The fields of a notification rule the create endpoint ignores, with the
\* values it gives them.
RuleDefaults ==
    [enabled |-> TRUE, notifyChildren |-> TRUE, logSuccessfulPublish |-> FALSE, notifyOn |-> {}]

NoRuleConfig ==
    [enabled |-> Null, notifyChildren |-> Null, logSuccessfulPublish |-> Null, notifyOn |-> {}]

\* The notification-rule resource before anything happened.
NrNone ==
    [exists |-> FALSE, srv |-> RuleDefaults,
     inState |-> FALSE, rec |-> RuleDefaults, cfg |-> NoRuleConfig,
     op |-> "none", calls |-> <<>>, diag |-> ""]

\* The notification-publisher resource before anything happened.
NpNone ==
    [exists |-> FALSE, name |-> "", inState |-> FALSE, recName |-> "",
     op |-> "none", calls |-> <<>>, diag |-> ""]

\* The provider before Configure.
PvNone ==
    [cfg |-> [endpoint |-> Null, apiKey |-> Null, username |-> Null, password |-> Null],
     op |-> "none", calls |-> <<>>, diag |-> "", auth |-> "", ready |-> FALSE]

\* A text where a UUID is expected: which UUID it writes and in which form;
\* NoText is an attribute that is not set.
NoText == [uuid |-> "", form |-> "none"]

\* No composite-id resource in state.
ImNone ==
    [res |-> "", op |-> "none", req |-> <<>>, id |-> <<>>, first |-> NoText, second |-> NoText,
     inState |-> FALSE, diag |-> "", created |-> <<>>]

\* The policy resource before anything happened.
PolNone ==
    [exists |-> FALSE, srv |-> <<>>, next |-> 1, inState |-> FALSE, rec |-> <<>>,
     op |-> "none", diag |-> "", prior |-> {}, before |-> {}, planned |-> <<>>, made |-> <<>>]

\* ------------------------------------------------------------------------
\* State
\* ------------------------------------------------------------------------
VARIABLES
    kind,          \* which resource: "team" or "user"
    holderExists,  \* the team / managed user exists on the server
    server,        \* the holder's permission set on the server
    inState,       \* the resource is in persisted state
    recPerms,      \* the recorded permission set (state attribute "permissions")
    op,            \* handler running or last run
    pc,            \* "idle", "add", "remove", "fetch", "done"
    idx,           \* position in the current loop
    desired,       \* desiredPermissions of the invocation (as a set)
    current,       \* currentPermissions of the invocation (as a set)
    plan,          \* the grant / revoke calls of the invocation
    calls,         \* remote calls issued by the invocation, in order
    diag,          \* error diagnostic of the invocation, NoDiag if none
    lastFetch,     \* what the re-read of the invocation returned
    lastOk,        \* idle, and the invocation before was a reconcile that
                   \* succeeded (desired then still holds its desired set)
    repeat,        \* the invocation is an Update for the desired set of the
                   \* reconcile that succeeded just before it
    inv,           \* number of invocations started
    ext,           \* number of writes by other clients
    extDuring,     \* another client wrote during the invocation
    added,         \* permissions on the server because the resource granted them
    holder,        \* the holder identifier the invocation was given
    server0,       \* the holder's permission set when the invocation started
    cp,            \* the config-property resource: server side, state, last handler
    ak,            \* the team-API-key resource: server side, state, last handler
    nr,            \* the notification-rule resource: server side, state, last handler
    np,            \* the notification-publisher resource: server side, state, last handler
    pv,            \* the provider: its configuration and what Configure did
    im,            \* a resource with a composite id: what Create or ImportState wrote
    pol            \* the policy resource: server side, state, last handler

permVars == <<kind, holderExists, server, inState, recPerms, op, pc, idx, desired,
              current, plan, calls, diag, lastFetch, lastOk, repeat, inv, ext, extDuring,
              added, holder, server0>>

vars == <<permVars, cp, ak, nr, np, pv, im, pol>>

Running == pc \in {"add", "remove", "fetch"}
HasError == diag # NoDiag
Succeeded == pc = "done" /\ ~HasError

InitPerms ==
    /\ kind \in Kinds
    /\ holderExists = TRUE
    /\ server \in SUBSET Perms
    /\ inState = FALSE
    /\ recPerms = {}
    /\ op = "none"
    /\ pc = "idle"
    /\ idx = 0
    /\ desired = {}
    /\ current = {}
    /\ plan = [add |-> <<>>, remove |-> <<>>]
    /\ calls = <<>>
    /\ diag = NoDiag
    /\ lastFetch = NoFetch
    /\ lastOk = FALSE
    /\ repeat = FALSE
    /\ inv = 0
    /\ ext = 0
    /\ extDuring = FALSE
    /\ added = {}
    /\ holder = ""
    /\ server0 = {}

\* The permissions resources alone: the other resources are not configured.
Init ==
    /\ InitPerms
    /\ cp = CpNone
    /\ ak = AkNone
    /\ nr = NrNone
    /\ np = NpNone
    /\ pv = PvNone
    /\ im = ImNone
    /\ pol = PolNone

\* ------------------------------------------------------------------------
\* Handlers
\* ------------------------------------------------------------------------
\* Entry of Create, Update and Delete: parse the holder identifier, read the
\* permission lists, and go to the first remote call.
Begin(o, d, c, id) ==
    LET pl  == PlanFor(o, d, c)
        pos == Position(o, "add", 1, pl)
    IN  /\ pc = "idle"
        /\ inv < MaxInvocations
        /\ inv' = inv + 1
        /\ repeat' = (o = "Update" /\ lastOk /\ Range(d) = desired /\ ParseHolder(kind, id))
        /\ lastOk' = FALSE
        /\ op' = o
        /\ desired' = Range(d)
        /\ current' = Range(c)
        /\ calls' = <<>>
        /\ lastFetch' = NoFetch
        /\ extDuring' = FALSE
        /\ holder' = id
        /\ server0' = server
        /\ IF ~ParseHolder(kind, id)
           THEN /\ diag' = ParseError
                /\ pc' = "done"
                /\ idx' = 0
                /\ plan' = [add |-> <<>>, remove |-> <<>>]
                /\ UNCHANGED <<inState, recPerms>>
           ELSE /\ diag' = NoDiag
                /\ pc' = pos[1]
                /\ idx' = pos[2]
                /\ plan' = pl
                /\ IF pos[1] = "done"
                   THEN inState' = FALSE /\ recPerms' = {}
                   ELSE UNCHANGED <<inState, recPerms>>
        /\ UNCHANGED <<kind, holderExists, server, ext>>

Create ==
    /\ ~inState
    /\ \E d \in DesiredLists, id \in HolderIds(kind) : Begin("Create", d, <<>>, id)
    /\ added' = {}
    /\ UNCHANGED <<cp, ak, nr, np, pv, im, pol>>

Update ==
    /\ inState
    /\ \E d \in DesiredLists, c \in Orderings(recPerms), id \in HolderIds(kind) :
          Begin("Update", d, c, id)
    /\ UNCHANGED added
    /\ UNCHANGED <<cp, ak, nr, np, pv, im, pol>>

Delete ==
    /\ inState
    /\ \E c \in Orderings(recPerms), id \in HolderIds(kind) : Begin("Delete", <<>>, c, id)
    /\ UNCHANGED added
    /\ UNCHANGED <<cp, ak, nr, np, pv, im, pol>>

\* One iteration of the add loop: AddPermissionToTeam / addPermissionToUser.
AddPermission ==
    /\ pc = "add"
    /\ LET p == plan.add[idx] IN
       \E out \in CallOutcomes(holderExists) :
          /\ calls' = Append(calls, [call |-> "grant", perm |-> p, res |-> out.res, err |-> out.err, held |-> ""])
          /\ IF out.res = "fail"
             THEN /\ diag' = ClientError("add", p, out.err)
                  /\ pc' = AfterError(op, "add", idx, plan)[1]
                  /\ idx' = AfterError(op, "add", idx, plan)[2]
                  /\ UNCHANGED <<server, added>>
             ELSE /\ pc' = Position(op, "add", idx + 1, plan)[1]
                  /\ idx' = Position(op, "add", idx + 1, plan)[2]
                  /\ server' = IF out.res = "ok" THEN server \cup {p} ELSE server
                  /\ added' = IF out.res = "ok" /\ p \notin server THEN added \cup {p} ELSE added
                  /\ UNCHANGED diag
    /\ UNCHANGED <<kind, holderExists, inState, recPerms, op, desired, current, plan,
                   lastFetch, lastOk, repeat, inv, ext, extDuring, holder, server0>>
    /\ UNCHANGED <<cp, ak, nr, np, pv, im, pol>>

\* One iteration of the remove loop: RemovePermissionFromTeam /
\* removePermissionFromUser.  A Delete that gets through its loop without
\* error leaves the resource out of state.
RemovePermission ==
    /\ pc = "remove"
    /\ LET p == plan.remove[idx] IN
       \E out \in CallOutcomes(holderExists) :
          /\ calls' = Append(calls, [call |-> "revoke", perm |-> p, res |-> out.res, err |-> out.err,
                                    held |-> IF op = "Delete" THEN HeldAs(p, server, added) ELSE ""])
          /\ IF out.res = "fail"
             THEN /\ diag' = ClientError("remove", p, out.err)
                  /\ pc' = AfterError(op, "remove", idx, plan)[1]
                  /\ idx' = AfterError(op, "remove", idx, plan)[2]
                  /\ UNCHANGED <<server, added, inState, recPerms>>
             ELSE /\ pc' = Position(op, "remove", idx + 1, plan)[1]
                  /\ idx' = Position(op, "remove", idx + 1, plan)[2]
                  /\ server' = IF out.res = "ok" THEN server \ {p} ELSE server
                  /\ added' = IF out.res = "ok" THEN added \ {p} ELSE added
                  /\ UNCHANGED diag
                  /\ IF Position(op, "remove", idx + 1, plan)[1] = "done"
                     THEN inState' = FALSE /\ recPerms' = {}
                     ELSE UNCHANGED <<inState, recPerms>>
    /\ UNCHANGED <<kind, holderExists, op, desired, current, plan,
                   lastFetch, lastOk, repeat, inv, ext, extDuring, holder, server0>>
    /\ UNCHANGED <<cp, ak, nr, np, pv, im, pol>>

\* The re-read that ends Create and Update: Team.Get / getUserPermissions,
\* then State.Set with the permissions the server returned.
GetPermissions ==
    /\ pc = "fetch"
    /\ \E out \in FetchOutcomes(kind, holderExists, server) :
          /\ calls' = Append(calls, [call |-> "fetch", perm |-> "", res |-> out.res, err |-> out.err, held |-> ""])
          /\ lastFetch' = out
          /\ pc' = "done"
          /\ idx' = 0
          /\ IF out.res = "fail"
             THEN /\ diag' = ClientError("read", "", out.err)
                  /\ UNCHANGED <<inState, recPerms>>
             ELSE /\ inState' = TRUE
                  /\ recPerms' = StateAfterFetch(out, desired)
                  /\ UNCHANGED diag
    /\ UNCHANGED <<kind, holderExists, server, op, desired, current, plan,
                   lastOk, repeat, inv, ext, extDuring, added, holder, server0>>
    /\ UNCHANGED <<cp, ak, nr, np, pv, im, pol>>

\* Read (refresh): one read of the holder; a holder that is gone drops the
\* resource from state.
Read ==
    /\ pc = "idle"
    /\ inState
    /\ inv < MaxInvocations
    /\ inv' = inv + 1
    /\ repeat' = FALSE
    /\ lastOk' = FALSE
    /\ op' = "Read"
    /\ pc' = "done"
    /\ idx' = 0
    /\ desired' = {}
    /\ current' = {}
    /\ plan' = [add |-> <<>>, remove |-> <<>>]
    /\ extDuring' = FALSE
    /\ server0' = server
    /\ \E id \in HolderIds(kind) :
          /\ holder' = id
          /\ IF ~ParseHolder(kind, id)
             THEN /\ diag' = ParseError
                  /\ calls' = <<>>
                  /\ lastFetch' = NoFetch
                  /\ UNCHANGED <<inState, recPerms>>
             ELSE \E out \in FetchOutcomes(kind, holderExists, server) :
                     /\ calls' = <<[call |-> "fetch", perm |-> "", res |-> out.res, err |-> out.err, held |-> ""]>>
                     /\ lastFetch' = out
                     /\ IF out.res = "fail"
                        THEN diag' = ClientError("read", "", out.err) /\ UNCHANGED <<inState, recPerms>>
                        ELSE IF HolderGone(out)
                             THEN diag' = NoDiag /\ inState' = FALSE /\ recPerms' = {}
                             ELSE diag' = NoDiag /\ inState' = TRUE /\ recPerms' = out.perms
    /\ UNCHANGED <<kind, holderExists, server, ext, added>>
    /\ UNCHANGED <<cp, ak, nr, np, pv, im, pol>>

\* The handler returns to the host, which keeps the state the handler set.
\* The host remembers nothing of the invocation but the configuration it
\* applied.
Return ==
    /\ pc = "done"
    /\ pc' = "idle"
    /\ lastOk' = (~HasError /\ op \in {"Create", "Update"})
    /\ desired' = IF lastOk' THEN desired ELSE {}
    /\ op' = "none"
    /\ idx' = 0
    /\ current' = {}
    /\ plan' = [add |-> <<>>, remove |-> <<>>]
    /\ calls' = <<>>
    /\ diag' = NoDiag
    /\ lastFetch' = NoFetch
    /\ repeat' = FALSE
    /\ extDuring' = FALSE
    /\ holder' = ""
    /\ server0' = {}
    /\ UNCHANGED <<kind, holderExists, server, inState, recPerms, inv, ext, added>>
    /\ UNCHANGED <<cp, ak, nr, np, pv, im, pol>>

\* ------------------------------------------------------------------------
\* Other clients of the server
\* ------------------------------------------------------------------------
ExternalGrant ==
    /\ ext < MaxExternal
    /\ pc # "done"
    /\ holderExists
    /\ \E p \in Perms \ server : server' = server \cup {p}
    /\ ext' = ext + 1
    /\ extDuring' = (extDuring \/ Running)
    /\ UNCHANGED <<kind, holderExists, inState, recPerms, op, pc, idx, desired, current,
                   plan, calls, diag, lastFetch, lastOk, repeat, inv, added, holder, server0>>
    /\ UNCHANGED <<cp, ak, nr, np, pv, im, pol>>

ExternalRevoke ==
    /\ ext < MaxExternal
    /\ pc # "done"
    /\ holderExists
    /\ \E p \in server : server' = server \ {p} /\ added' = added \ {p}
    /\ ext' = ext + 1
    /\ extDuring' = (extDuring \/ Running)
    /\ UNCHANGED <<kind, holderExists, inState, recPerms, op, pc, idx, desired, current,
                   plan, calls, diag, lastFetch, lastOk, repeat, inv, holder, server0>>
    /\ UNCHANGED <<cp, ak, nr, np, pv, im, pol>>

ExternalDeleteHolder ==
    /\ ext < MaxExternal
    /\ pc # "done"
    /\ holderExists
    /\ holderExists' = FALSE
    /\ server' = {}
    /\ added' = {}
    /\ ext' = ext + 1
    /\ extDuring' = (extDuring \/ Running)
    /\ UNCHANGED <<kind, inState, recPerms, op, pc, idx, desired, current,
                   plan, calls, diag, lastFetch, lastOk, repeat, inv, holder, server0>>
    /\ UNCHANGED <<cp, ak, nr, np, pv, im, pol>>

Next ==
    \/ Create
    \/ Update
    \/ Delete
    \/ Read
    \/ AddPermission
    \/ RemovePermission
    \/ GetPermissions
    \/ Return
    \/ ExternalGrant
    \/ ExternalRevoke
    \/ ExternalDeleteHolder

Spec == Init /\ [][Next]_vars

\* ------------------------------------------------------------------------
\* Config-property resource
\* ------------------------------------------------------------------------
CfgValues == {"alpha", "beta"}
CfgTypes == {"STRING", "ENCRYPTEDSTRING"}

\* What the server puts in a response in place of an encrypted value.
Placeholder == "HiddenDecryptedPropertyPlaceholder"

\* A call returns without error or with one of the transport/status errors.
Outcomes == {"ok"} \cup Errs

\* The value of a property as the server's responses carry it.
ShownValue(t, v) == IF t = "ENCRYPTEDSTRING" THEN Placeholder ELSE v

\* Config.Get: the property, or a property without name if there is none.
CfgGet(c) ==
    IF c.exists
    THEN [name |-> "prop", type |-> c.type, value |-> ShownValue(c.type, c.value)]
    ELSE [name |-> "", type |-> "", value |-> ""]

\* Config.Update: the server stores the value of a property it has and
\* answers with the property as it shows it.
CfgUpdateResponse(c, v) == [name |-> "prop", type |-> c.type, value |-> ShownValue(c.type, v)]

\* Variant of CfgMissing: the test is missing.
CfgMissing_Never(prop) == FALSE

\* The test 'existingProp.Name == ""' of Create and 'prop.Name == ""' of Read.
CfgMissing(prop) == prop.name = ""

CfgCall(name, res) == [call |-> name, res |-> res]

\* A handler that returns after AddError: state is left as it was.
CfgFailed(c, o, v, cs, d) ==
    [c EXCEPT !.op = o, !.cfg = v, !.calls = cs, !.diag = d,
              !.before = [exists |-> c.exists, value |-> c.value]]

\* A handler that gets to State.Set with the property prop.
CfgRecorded(c, o, v, cs, prop, srvValue) ==
    [c EXCEPT !.op = o, !.cfg = v, !.calls = cs, !.diag = "",
              !.before = [exists |-> c.exists, value |-> c.value],
              !.value = srvValue,
              !.inState = TRUE, !.recValue = prop.value, !.recType = prop.type]

\* ConfigPropertyResource.Create with configured value v (Null: adopt), the
\* Get returning g and the Update, if issued, returning u.
CfgCreateResult(c, v, g, u) ==
    LET existingProp == CfgGet(c)
        gets == <<CfgCall("get", g)>>
        both == <<CfgCall("get", g), CfgCall("update", IF c.exists THEN u ELSE "status 404")>>
    IN  IF g # "ok" THEN CfgFailed(c, "Create", v, gets, "Client Error")
        ELSE IF CfgMissing(existingProp)
             THEN CfgFailed(c, "Create", v, gets, "Config Property Not Found")
        ELSE IF v # Null
             THEN (IF u # "ok" \/ ~c.exists
                   THEN CfgFailed(c, "Create", v, both, "Client Error")
                   ELSE CfgRecorded(c, "Create", v, both, CfgUpdateResponse(c, v), v))
             ELSE CfgRecorded(c, "Create", v, gets, existingProp, c.value)

\* ConfigPropertyResource.Update with planned value v.
CfgUpdateResult(c, v, g, u) ==
    LET gets == <<CfgCall("get", g)>>
        both == <<CfgCall("get", g), CfgCall("update", IF c.exists THEN u ELSE "status 404")>>
    IN  IF g # "ok" THEN CfgFailed(c, "Update", v, gets, "Client Error")
        ELSE IF u # "ok" \/ ~c.exists
             THEN CfgFailed(c, "Update", v, both, "Client Error")
             ELSE CfgRecorded(c, "Update", v, both, CfgUpdateResponse(c, v), v)

\* ConfigPropertyResource.Read.
CfgReadResult(c, g) ==
    LET prop == CfgGet(c)
        gets == <<CfgCall("get", g)>>
    IN  IF g # "ok" THEN CfgFailed(c, "Read", Null, gets, "Client Error")
        ELSE IF CfgMissing(prop)
             THEN [CfgFailed(c, "Read", Null, gets, "") EXCEPT
                      !.inState = FALSE, !.recValue = "", !.recType = ""]
             ELSE CfgRecorded(c, "Read", Null, gets, prop, c.value)

\* ConfigPropertyResource.Delete: no remote call; the host drops the state.
CfgDeleteResult(c) ==
    [CfgFailed(c, "Delete", Null, <<>>, "") EXCEPT
        !.inState = FALSE, !.recValue = "", !.recType = ""]

ConfigPropertyCreate ==
    /\ ~cp.inState
    /\ \E v \in CfgValues \cup {Null}, g \in Outcomes, u \in Outcomes :
          cp' = CfgCreateResult(cp, v, g, u)
    /\ UNCHANGED <<permVars, ak, nr, np, pv, im, pol>>

ConfigPropertyUpdate ==
    /\ cp.inState
    /\ \E v \in CfgValues, g \in Outcomes, u \in Outcomes :
          cp' = CfgUpdateResult(cp, v, g, u)
    /\ UNCHANGED <<permVars, ak, nr, np, pv, im, pol>>

ConfigPropertyRead ==
    /\ cp.inState
    /\ \E g \in Outcomes : cp' = CfgReadResult(cp, g)
    /\ UNCHANGED <<permVars, ak, nr, np, pv, im, pol>>

ConfigPropertyDelete ==
    /\ cp.inState
    /\ cp' = CfgDeleteResult(cp)
    /\ UNCHANGED <<permVars, ak, nr, np, pv, im, pol>>

\* Another client (an administrator) sets the value of the property.
ConfigPropertyExternalSet ==
    /\ cp.exists
    /\ \E v \in CfgValues \ {cp.value} :
          cp' = [cp EXCEPT !.value = v, !.op = "none", !.cfg = Null, !.calls = <<>>, !.diag = ""]
    /\ UNCHANGED <<permVars, ak, nr, np, pv, im, pol>>

\* The permissions resources are not configured; the property is one the
\* server has, of either type, or one it does not have.
InitConfig ==
    /\ InitPerms
    /\ kind = "team"
    /\ server = {}
    /\ cp \in {CpNone} \cup
          {[CpNone EXCEPT !.exists = TRUE, !.type = t, !.value = v] : t \in CfgTypes, v \in CfgValues}
    /\ ak = AkNone
    /\ nr = NrNone
    /\ np = NpNone
    /\ pv = PvNone
    /\ im = ImNone
    /\ pol = PolNone

NextConfig ==
    \/ ConfigPropertyCreate
    \/ ConfigPropertyUpdate
    \/ ConfigPropertyRead
    \/ ConfigPropertyDelete
    \/ ConfigPropertyExternalSet

SpecConfig == InitConfig /\ [][NextConfig]_vars

\* ------------------------------------------------------------------------
\* Team-API-key resource
\* ------------------------------------------------------------------------
MaxKeys == 2

\* Comments of a configuration: none, empty, or a text.
AkComments == {Null, "", "ci"}

TeamIds == {GoodUUID, "not-a-uuid"}

\* The key value GenerateAPIKey returns for the i-th key of the team.
Secret(i) == [prefix |-> "odt", id |-> i]

\* An entry of the list GetAPIKeys returns: the key itself is not in it.
AkListed(a) == [publicId |-> a.recId, key |-> NoKey, comment |-> a.srvComment]

\* Variant of ReadKey: Read copies the key of the listed entry.
ReadKey_FromAPI(stateKey, listed) == listed.key

\* Read writes comment and masked key from the listed entry and leaves the
\* key attribute as it is in state.
ReadKey(stateKey, listed) == stateKey

AkFailed(a, o, cs, d) == [a EXCEPT !.op = o, !.calls = cs, !.diag = d]

AkDropped(a, o, cs) ==
    [a EXCEPT !.op = o, !.calls = cs, !.diag = "",
              !.inState = FALSE, !.recId = 0, !.recKey = NoKey, !.recComment = Null,
              !.genKey = NoKey, !.since = {}]

\* TeamAPIKeyResource.Create for team attribute t and configured comment c,
\* GenerateAPIKey returning g and UpdateAPIKeyComment, if issued, u.
AkCreateResult(a, t, c, g, u) ==
    LET id   == a.n + 1
        gen  == [a EXCEPT !.keys = a.keys \cup {id}, !.n = id, !.srvComment = ""]
        set  == [gen EXCEPT !.inState = TRUE, !.recId = id, !.recKey = Secret(id),
                            !.recComment = c, !.genKey = Secret(id), !.since = {},
                            !.op = "Create", !.diag = ""]
        one  == <<CfgCall("generate", g)>>
        both == <<CfgCall("generate", g), CfgCall("comment", u)>>
    IN  IF t # GoodUUID THEN AkFailed(a, "Create", <<>>, "Invalid Team UUID")
        ELSE IF g # "ok" THEN AkFailed(a, "Create", one, "Client Error")
        ELSE IF c # Null /\ c # ""
             THEN (IF u # "ok" THEN AkFailed(gen, "Create", both, "Client Error")
                   ELSE [set EXCEPT !.srvComment = c, !.calls = both])
             ELSE [set EXCEPT !.calls = one]

\* TeamAPIKeyResource.Read, GetAPIKeys returning g.
AkReadResult(a, g) ==
    LET one == <<CfgCall("list", g)>>
        listed == AkListed(a)
    IN  IF g # "ok" THEN AkFailed(a, "Read", one, "Client Error")
        ELSE IF a.recId \in a.keys
             THEN [a EXCEPT !.op = "Read", !.calls = one, !.diag = "",
                            !.recComment = IF listed.comment # "" THEN listed.comment ELSE Null,
                            !.recKey = ReadKey(a.recKey, listed),
                            !.since = a.since \cup {"Read"}]
             ELSE AkDropped(a, "Read", one)

\* TeamAPIKeyResource.Update to planned comment c.
AkUpdateResult(a, c, u) ==
    LET res == IF a.recId \in a.keys THEN u ELSE "status 404"
        cs  == IF c # a.recComment THEN <<CfgCall("comment", res)>> ELSE <<>>
    IN  IF c # a.recComment /\ res # "ok" THEN AkFailed(a, "Update", cs, "Client Error")
        ELSE [a EXCEPT !.op = "Update", !.calls = cs, !.diag = "",
                       !.srvComment = IF c # a.recComment
                                      THEN (IF c = Null THEN "" ELSE c) ELSE a.srvComment,
                       !.recComment = c,
                       !.since = a.since \cup {"Update"}]

\* TeamAPIKeyResource.Delete, DeleteAPIKey returning d.
AkDeleteResult(a, d) ==
    LET res == IF a.recId \in a.keys THEN d ELSE "status 404"
        one == <<CfgCall("delete", res)>>
    IN  IF res # "ok" THEN AkFailed(a, "Delete", one, "Client Error")
        ELSE [AkDropped(a, "Delete", one) EXCEPT !.keys = a.keys \ {a.recId}]

TeamAPIKeyCreate ==
    /\ ~ak.inState
    /\ ak.n < MaxKeys
    /\ \E t \in TeamIds, c \in AkComments, g \in Outcomes, u \in Outcomes :
          ak' = AkCreateResult(ak, t, c, g, u)
    /\ UNCHANGED <<permVars, cp, nr, np, pv, im, pol>>

TeamAPIKeyRead ==
    /\ ak.inState
    /\ \E g \in Outcomes : ak' = AkReadResult(ak, g)
    /\ UNCHANGED <<permVars, cp, nr, np, pv, im, pol>>

TeamAPIKeyUpdate ==
    /\ ak.inState
    /\ \E c \in AkComments, u \in Outcomes : ak' = AkUpdateResult(ak, c, u)
    /\ UNCHANGED <<permVars, cp, nr, np, pv, im, pol>>

TeamAPIKeyDelete ==
    /\ ak.inState
    /\ \E d \in Outcomes : ak' = AkDeleteResult(ak, d)
    /\ UNCHANGED <<permVars, cp, nr, np, pv, im, pol>>

\* Another client deletes a key of the team.
TeamAPIKeyExternalDelete ==
    /\ \E k \in ak.keys :
          ak' = [ak EXCEPT !.keys = ak.keys \ {k}, !.op = "none", !.calls = <<>>, !.diag = ""]
    /\ UNCHANGED <<permVars, cp, nr, np, pv, im, pol>>

InitApiKey ==
    /\ InitPerms
    /\ kind = "team"
    /\ server = {}
    /\ cp = CpNone
    /\ ak = AkNone
    /\ nr = NrNone
    /\ np = NpNone
    /\ pv = PvNone
    /\ im = ImNone
    /\ pol = PolNone

NextApiKey ==
    \/ TeamAPIKeyCreate
    \/ TeamAPIKeyRead
    \/ TeamAPIKeyUpdate
    \/ TeamAPIKeyDelete
    \/ TeamAPIKeyExternalDelete

SpecApiKey == InitApiKey /\ [][NextApiKey]_vars

\* ------------------------------------------------------------------------
\* Notification-rule resource
\* ------------------------------------------------------------------------
Events == {"NEW_VULNERABILITY", "POLICY_VIOLATION"}

\* An optional boolean attribute of the configuration.
OptBool == {Null, "true", "false"}

RuleConfigs ==
    [enabled : OptBool, notifyChildren : OptBool, logSuccessfulPublish : OptBool,
     notifyOn : SUBSET Events]

PublisherIds == {GoodUUID, "not-a-uuid"}

\* "if !IsNull && !IsUnknown { ValueBool() } else { API default }"
OrDefault(x, d) == IF x = Null THEN d ELSE x = "true"

\* The rule the handlers build from the configuration.
BuildRule(cfg) ==
    [enabled |-> OrDefault(cfg.enabled, TRUE),
     notifyChildren |-> OrDefault(cfg.notifyChildren, TRUE),
     logSuccessfulPublish |-> OrDefault(cfg.logSuccessfulPublish, FALSE),
     notifyOn |-> cfg.notifyOn]

\* createRule (PUT): the server ignores the four fields and answers with
\* its defaults.
CreatedRule(rule) == RuleDefaults

\* Variant of NeedsUpdate: notifyOn is not looked at.
NeedsUpdate_BoolsOnly(rule) ==
    ~rule.enabled \/ ~rule.notifyChildren \/ rule.logSuccessfulPublish

\* The follow-up decision of Create.
NeedsUpdate(rule) ==
    rule.notifyOn # {} \/ ~rule.enabled \/ ~rule.notifyChildren \/ rule.logSuccessfulPublish

\* createdRule after Create copied into it the fields that are not at
\* their defaults.
Overridden(created, rule) ==
    [enabled |-> IF ~rule.enabled THEN rule.enabled ELSE created.enabled,
     notifyChildren |-> IF ~rule.notifyChildren THEN rule.notifyChildren ELSE created.notifyChildren,
     logSuccessfulPublish |-> IF rule.logSuccessfulPublish THEN rule.logSuccessfulPublish
                              ELSE created.logSuccessfulPublish,
     notifyOn |-> IF rule.notifyOn # {} THEN rule.notifyOn ELSE created.notifyOn]

\* An error message, with the characters isNotFoundError looks at.
ApiFailedMsg(e) == [text |-> "API request failed with " \o e \o ": ", first3 |-> "API", last3 |-> ": "]
RuleNotFoundMsg == [text |-> "notification rule not found: " \o GoodUUID, first3 |-> "not", last3 |-> "0c8"]

\* isNotFoundError: the text is exactly "notification publisher not found",
\* or starts with "API" and ends with "404".
IsNotFoundError(m) ==
    m.text = "notification publisher not found" \/ (m.first3 = "API" /\ m.last3 = "404")

\* getRule: the error it returns, given the outcome g of the list request;
\* "" if it returns the rule.
GetRuleError(r, g) ==
    IF g # "ok" THEN ApiFailedMsg(g)
    ELSE IF ~r.exists THEN RuleNotFoundMsg
    ELSE [text |-> "", first3 |-> "", last3 |-> ""]

NrFailed(r, o, cfg, cs, d) == [r EXCEPT !.op = o, !.cfg = cfg, !.calls = cs, !.diag = d]

NrDropped(r, o, cs) ==
    [r EXCEPT !.op = o, !.cfg = NoRuleConfig, !.calls = cs, !.diag = "",
              !.inState = FALSE, !.rec = RuleDefaults]

\* NotificationRuleResource.Create for configuration cfg and publisher
\* attribute pub, createRule returning c and updateRule, if issued, u.
NrCreateResult(r, cfg, pub, c, u) ==
    LET rule    == BuildRule(cfg)
        created == CreatedRule(rule)
        sent    == Overridden(created, rule)
        one     == <<CfgCall("create", c)>>
        both    == <<CfgCall("create", c), CfgCall("update", u)>>
        made    == [r EXCEPT !.exists = TRUE, !.srv = created]
    IN  IF pub # GoodUUID THEN NrFailed(r, "Create", cfg, <<>>, "Invalid Publisher UUID")
        ELSE IF c # "ok" THEN NrFailed(r, "Create", cfg, one, "Client Error")
        ELSE IF NeedsUpdate(rule)
             THEN (IF u # "ok" THEN NrFailed(made, "Create", cfg, both, "Client Error")
                   ELSE [made EXCEPT !.srv = sent, !.inState = TRUE, !.rec = sent,
                                     !.op = "Create", !.cfg = cfg, !.calls = both, !.diag = ""])
             ELSE [made EXCEPT !.inState = TRUE, !.rec = created,
                               !.op = "Create", !.cfg = cfg, !.calls = one, !.diag = ""]

\* NotificationRuleResource.Read, the list request of getRule returning g.
NrReadResult(r, g) ==
    LET err == GetRuleError(r, g)
        one == <<CfgCall("list", g)>>
    IN  IF err.text # ""
        THEN (IF IsNotFoundError(err) THEN NrDropped(r, "Read", one)
              ELSE NrFailed(r, "Read", NoRuleConfig, one, "Client Error"))
        ELSE [r EXCEPT !.op = "Read", !.cfg = NoRuleConfig, !.calls = one, !.diag = "",
                       !.rec = r.srv]

\* NotificationRuleResource.Update to configuration cfg, updateRule
\* returning u.
NrUpdateResult(r, cfg, u) ==
    LET rule == BuildRule(cfg)
        res  == IF r.exists THEN u ELSE "status 404"
        one  == <<CfgCall("update", res)>>
    IN  IF res # "ok" THEN NrFailed(r, "Update", cfg, one, "Client Error")
        ELSE [r EXCEPT !.op = "Update", !.cfg = cfg, !.calls = one, !.diag = "",
                       !.srv = rule, !.rec = rule]

\* NotificationRuleResource.Delete: deleteRule reads the rule (list request
\* returning g), then issues the DELETE (returning d).
NrDeleteResult(r, g, d) ==
    LET err  == GetRuleError(r, g)
        one  == <<CfgCall("list", g)>>
        both == <<CfgCall("list", g), CfgCall("delete", d)>>
    IN  IF err.text # ""
        THEN (IF IsNotFoundError(err) THEN NrDropped(r, "Delete", one)
              ELSE NrFailed(r, "Delete", NoRuleConfig, one, "Client Error"))
        ELSE IF d # "ok" THEN NrFailed(r, "Delete", NoRuleConfig, both, "Client Error")
        ELSE [NrDropped(r, "Delete", both) EXCEPT !.exists = FALSE, !.srv = RuleDefaults]

NotificationRuleCreate ==
    /\ ~nr.inState
    /\ \E cfg \in RuleConfigs, pub \in PublisherIds, c \in Outcomes, u \in Outcomes :
          nr' = NrCreateResult(nr, cfg, pub, c, u)
    /\ UNCHANGED <<permVars, cp, ak, np, pv, im, pol>>

NotificationRuleRead ==
    /\ nr.inState
    /\ \E g \in Outcomes : nr' = NrReadResult(nr, g)
    /\ UNCHANGED <<permVars, cp, ak, np, pv, im, pol>>

NotificationRuleUpdate ==
    /\ nr.inState
    /\ \E cfg \in RuleConfigs, u \in Outcomes : nr' = NrUpdateResult(nr, cfg, u)
    /\ UNCHANGED <<permVars, cp, ak, np, pv, im, pol>>

NotificationRuleDelete ==
    /\ nr.inState
    /\ \E g \in Outcomes, d \in Outcomes : nr' = NrDeleteResult(nr, g, d)
    /\ UNCHANGED <<permVars, cp, ak, np, pv, im, pol>>

\* Another client deletes the rule.
NotificationRuleExternalDelete ==
    /\ nr.exists
    /\ nr' = [nr EXCEPT !.exists = FALSE, !.srv = RuleDefaults,
                        !.op = "none", !.cfg = NoRuleConfig, !.calls = <<>>, !.diag = ""]
    /\ UNCHANGED <<permVars, cp, ak, np, pv, im, pol>>

InitRule ==
    /\ InitPerms
    /\ kind = "team"
    /\ server = {}
    /\ cp = CpNone
    /\ ak = AkNone
    /\ nr = NrNone
    /\ np = NpNone
    /\ pv = PvNone
    /\ im = ImNone
    /\ pol = PolNone

NextRule ==
    \/ NotificationRuleCreate
    \/ NotificationRuleRead
    \/ NotificationRuleUpdate
    \/ NotificationRuleDelete
    \/ NotificationRuleExternalDelete

SpecRule == InitRule /\ [][NextRule]_vars

\* ------------------------------------------------------------------------
\* The notification-publisher resource
\* ------------------------------------------------------------------------
PublisherNames == {"slack", "mail"}

\* getPublisher's error for a UUID that is not in the list.
PublisherNotFoundMsg ==
    [text |-> "notification publisher not found: " \o GoodUUID, first3 |-> "not", last3 |-> "0c8"]

\* getPublisher: the error it returns, given the outcome g of the list
\* request; "" if it returns the publisher.
GetPublisherError(p, g) ==
    IF g # "ok" THEN ApiFailedMsg(g)
    ELSE IF ~p.exists THEN PublisherNotFoundMsg
    ELSE [text |-> "", first3 |-> "", last3 |-> ""]

NpFailed(p, o, cs, d) == [p EXCEPT !.op = o, !.calls = cs, !.diag = d]

NpDropped(p, o, cs) ==
    [p EXCEPT !.op = o, !.calls = cs, !.diag = "", !.inState = FALSE, !.recName = ""]

\* NotificationPublisherResource.Create with name n, createPublisher
\* returning c.
NpCreateResult(p, n, c) ==
    LET one == <<CfgCall("create", c)>>
    IN  IF c # "ok" THEN NpFailed(p, "Create", one, "Client Error")
        ELSE [p EXCEPT !.exists = TRUE, !.name = n, !.inState = TRUE, !.recName = n,
                       !.op = "Create", !.calls = one, !.diag = ""]

\* NotificationPublisherResource.Read, the list request of getPublisher
\* returning g.
NpReadResult(p, g) ==
    LET err == GetPublisherError(p, g)
        one == <<CfgCall("list", g)>>
    IN  IF err.text # ""
        THEN (IF IsNotFoundError(err) THEN NpDropped(p, "Read", one)
              ELSE NpFailed(p, "Read", one, "Client Error"))
        ELSE [p EXCEPT !.op = "Read", !.calls = one, !.diag = "", !.recName = p.name]

\* NotificationPublisherResource.Update to name n, updatePublisher
\* returning u.
NpUpdateResult(p, n, u) ==
    LET res == IF p.exists THEN u ELSE "status 404"
        one == <<CfgCall("update", res)>>
    IN  IF res # "ok" THEN NpFailed(p, "Update", one, "Client Error")
        ELSE [p EXCEPT !.op = "Update", !.calls = one, !.diag = "",
                       !.name = n, !.recName = n]

\* NotificationPublisherResource.Delete: the DELETE request by UUID,
\* returning d.
NpDeleteResult(p, d) ==
    LET res == IF p.exists THEN d ELSE "status 404"
        one == <<CfgCall("delete", res)>>
    IN  IF res # "ok" THEN NpFailed(p, "Delete", one, "Client Error")
        ELSE [NpDropped(p, "Delete", one) EXCEPT !.exists = FALSE, !.name = ""]

NotificationPublisherCreate ==
    /\ ~np.inState
    /\ \E n \in PublisherNames, c \in Outcomes : np' = NpCreateResult(np, n, c)
    /\ UNCHANGED <<permVars, cp, ak, nr, pv, im, pol>>

NotificationPublisherRead ==
    /\ np.inState
    /\ \E g \in Outcomes : np' = NpReadResult(np, g)
    /\ UNCHANGED <<permVars, cp, ak, nr, pv, im, pol>>

NotificationPublisherUpdate ==
    /\ np.inState
    /\ \E n \in PublisherNames, u \in Outcomes : np' = NpUpdateResult(np, n, u)
    /\ UNCHANGED <<permVars, cp, ak, nr, pv, im, pol>>

NotificationPublisherDelete ==
    /\ np.inState
    /\ \E d \in Outcomes : np' = NpDeleteResult(np, d)
    /\ UNCHANGED <<permVars, cp, ak, nr, pv, im, pol>>

\* Another client deletes the publisher.
NotificationPublisherExternalDelete ==
    /\ np.exists
    /\ np' = [np EXCEPT !.exists = FALSE, !.name = "", !.op = "none", !.calls = <<>>, !.diag = ""]
    /\ UNCHANGED <<permVars, cp, ak, nr, pv, im, pol>>

NextPublisher ==
    \/ NotificationPublisherCreate
    \/ NotificationPublisherRead
    \/ NotificationPublisherUpdate
    \/ NotificationPublisherDelete
    \/ NotificationPublisherExternalDelete

\* A rule that Create has written to state, and no publisher yet.
InitNotification ==
    /\ InitPerms
    /\ kind = "team"
    /\ server = {}
    /\ cp = CpNone
    /\ ak = AkNone
    /\ \E cfg \in RuleConfigs : nr = NrCreateResult(NrNone, cfg, GoodUUID, "ok", "ok")
    /\ np = NpNone
    /\ pv = PvNone
    /\ im = ImNone
    /\ pol = PolNone

\* Rules and publishers read side by side while other clients delete them.
NextNotification ==
    \/ NotificationRuleRead
    \/ NotificationRuleExternalDelete
    \/ NextPublisher

SpecNotification == InitNotification /\ [][NextNotification]_vars

\* ------------------------------------------------------------------------
\* The provider
\* ------------------------------------------------------------------------
EndpointValues == {Null, "", "https://dtrack.example.com", "http://localhost:8081"}
CredValues == {Null, "", "x"}
ProviderConfigs ==
    [endpoint : EndpointValues, apiKey : CredValues, username : CredValues, password : CredValues]
LibOutcomes == {"ok", "fail"}

\* !v.IsNull() && v.ValueString() != ""
HasValue_NotNull(v) == v # Null
HasValue(v) == v # Null /\ v # ""

PvRejected(c, d) ==
    [cfg |-> c, op |-> "Configure", calls |-> <<>>, diag |-> d, auth |-> "", ready |-> FALSE]

PvFailed(c, cs, d) ==
    [cfg |-> c, op |-> "Configure", calls |-> cs, diag |-> d, auth |-> "", ready |-> FALSE]

\* DependencyTrackProvider.Configure for configuration c; n1 and n2 are the
\* outcomes of the NewClient calls and l of User.Login.
ConfigureResult(c, n1, l, n2) ==
    LET hasApiKey   == HasValue(c.apiKey)
        hasUsername == HasValue(c.username)
        hasPassword == HasValue(c.password)
        new1  == <<CfgCall("NewClient", n1)>>
        login == <<CfgCall("NewClient", n1), CfgCall("Login", l)>>
        new2  == <<CfgCall("NewClient", n1), CfgCall("Login", l), CfgCall("NewClient", n2)>>
    IN  IF ~HasValue(c.endpoint) THEN PvRejected(c, "Missing Endpoint Configuration")
        ELSE IF hasApiKey /\ (hasUsername \/ hasPassword)
             THEN PvRejected(c, "Conflicting Authentication Configuration")
        ELSE IF ~hasApiKey /\ (~hasUsername \/ ~hasPassword)
             THEN PvRejected(c, "Missing Authentication Configuration")
        ELSE IF hasUsername /\ ~hasPassword
             THEN PvRejected(c, "Incomplete Authentication Configuration")
        ELSE IF hasPassword /\ ~hasUsername
             THEN PvRejected(c, "Incomplete Authentication Configuration")
        ELSE IF hasApiKey
             THEN (IF n1 # "ok" THEN PvFailed(c, new1, "Unable to Create Dependency-Track Client")
                   ELSE [cfg |-> c, op |-> "Configure", calls |-> new1, diag |-> "",
                         auth |-> "apiKey", ready |-> TRUE])
        ELSE IF n1 # "ok" THEN PvFailed(c, new1, "Unable to Create Temporary Client")
        ELSE IF l # "ok" THEN PvFailed(c, login, "Authentication Failed")
        ELSE IF n2 # "ok" THEN PvFailed(c, new2, "Unable to Create Dependency-Track Client")
        ELSE [cfg |-> c, op |-> "Configure", calls |-> new2, diag |-> "",
              auth |-> "bearer", ready |-> TRUE]

Configure ==
    /\ \E c \in ProviderConfigs, n1 \in LibOutcomes, l \in LibOutcomes, n2 \in LibOutcomes :
          pv' = ConfigureResult(c, n1, l, n2)
    /\ UNCHANGED <<permVars, cp, ak, nr, np, im, pol>>

InitProvider ==
    /\ InitPerms
    /\ kind = "team"
    /\ server = {}
    /\ cp = CpNone
    /\ ak = AkNone
    /\ nr = NrNone
    /\ np = NpNone
    /\ pv = PvNone
    /\ im = ImNone
    /\ pol = PolNone

NextProvider == Configure

SpecProvider == InitProvider /\ [][NextProvider]_vars

\* ------------------------------------------------------------------------
\* Resources with a composite id: ACL mapping and project policy
\* ------------------------------------------------------------------------
MaxParts == 3

CompositeKinds == {"acl_mapping", "project_policy"}
Uuids == {"u1", "u2"}

\* The forms of text uuid.Parse accepts, here the canonical one and the same
\* in upper case, and two texts it rejects.
ValidForms == {"canonical", "upper"}
UuidTexts == [uuid : Uuids, form : ValidForms] \cup
             {[uuid |-> "", form |-> "empty"], [uuid |-> "", form |-> "garbage"]}

\* uuid.Parse: the UUID a text writes, or "invalid".
UuidParse(t) == IF t.form \in ValidForms THEN t.uuid ELSE "invalid"

\* UUID.String: the canonical text of a UUID.
UuidString(u) == [uuid |-> u, form |-> "canonical"]

\* An id is kept as the parts strings.Split(id, "/") returns; a part holds
\* no "/".
ImportIds == UNION {[1..n -> UuidTexts] : n \in 1..MaxParts}

\* fmt.Sprintf("%s/%s", a.String(), b.String())
CompositeId(a, b) == <<UuidString(a), UuidString(b)>>

\* The summary of the error for the first component.
FirstDiag(k) == IF k = "acl_mapping" THEN "Invalid Team UUID" ELSE "Invalid Policy UUID"

ImFailed(k, o, r, d) ==
    [ImNone EXCEPT !.res = k, !.op = o, !.req = r, !.diag = d]

\* Create of either resource for the configured texts a and b, the request
\* to the server returning c.
ImCreateResult(k, a, b, c) ==
    IF UuidParse(a) = "invalid" THEN ImFailed(k, "Create", <<a, b>>, FirstDiag(k))
    ELSE IF UuidParse(b) = "invalid" THEN ImFailed(k, "Create", <<a, b>>, "Invalid Project UUID")
    ELSE IF c # "ok" THEN ImFailed(k, "Create", <<a, b>>, "Client Error")
    ELSE [res |-> k, op |-> "Create", req |-> <<a, b>>,
          id |-> CompositeId(UuidParse(a), UuidParse(b)), first |-> a, second |-> b,
          inState |-> TRUE, diag |-> "", created |-> <<>>]

\* ImportState of either resource for the id whose parts are parts, into an
\* empty state; was is the resource as it was before.
ImportResult_AtLeastTwoParts(k, parts, was) ==
    IF Len(parts) < 2 THEN ImFailed(k, "ImportState", parts, "Invalid Import ID")
    ELSE IF UuidParse(parts[1]) = "invalid" THEN ImFailed(k, "ImportState", parts, FirstDiag(k))
    ELSE IF UuidParse(parts[2]) = "invalid"
         THEN ImFailed(k, "ImportState", parts, "Invalid Project UUID")
    ELSE [res |-> k, op |-> "ImportState", req |-> parts,
          id |-> parts,
          first |-> UuidString(UuidParse(parts[1])),
          second |-> UuidString(UuidParse(parts[2])),
          inState |-> TRUE, diag |-> "",
          created |-> IF was.op = "Create" /\ was.inState /\ was.res = k /\ was.id = parts
                      THEN <<was.first, was.second>> ELSE <<>>]
ImportResult(k, parts, was) ==
    IF Len(parts) # 2 THEN ImFailed(k, "ImportState", parts, "Invalid Import ID")
    ELSE IF UuidParse(parts[1]) = "invalid" THEN ImFailed(k, "ImportState", parts, FirstDiag(k))
    ELSE IF UuidParse(parts[2]) = "invalid"
         THEN ImFailed(k, "ImportState", parts, "Invalid Project UUID")
    ELSE [res |-> k, op |-> "ImportState", req |-> parts,
          id |-> parts,
          first |-> UuidString(UuidParse(parts[1])),
          second |-> UuidString(UuidParse(parts[2])),
          inState |-> TRUE, diag |-> "",
          created |-> IF was.op = "Create" /\ was.inState /\ was.res = k /\ was.id = parts
                      THEN <<was.first, was.second>> ELSE <<>>]

CompositeCreate ==
    /\ \E k \in CompositeKinds, a \in UuidTexts, b \in UuidTexts, c \in Outcomes :
          im' = ImCreateResult(k, a, b, c)
    /\ UNCHANGED <<permVars, cp, ak, nr, np, pv, pol>>

ImportState ==
    /\ \E k \in CompositeKinds, parts \in ImportIds : im' = ImportResult(k, parts, im)
    /\ UNCHANGED <<permVars, cp, ak, nr, np, pv, pol>>

InitImport ==
    /\ InitPerms
    /\ kind = "team"
    /\ server = {}
    /\ cp = CpNone
    /\ ak = AkNone
    /\ nr = NrNone
    /\ np = NpNone
    /\ pv = PvNone
    /\ im = ImNone
    /\ pol = PolNone

NextImport ==
    \/ CompositeCreate
    \/ ImportState

SpecImport == InitImport /\ [][NextImport]_vars

\* ------------------------------------------------------------------------
\* The policy resource and its conditions
\* ------------------------------------------------------------------------
MaxConds == 2
MaxIssued == 4

\* What a condition says: subject, operator and value.
CondBodies == {"SEVERITY IS HIGH", "LICENSE IS GPL-3.0"}

\* The conditions attribute of a plan: a list, null being the empty list.
CondPlans == UNION {[1..n -> CondBodies] : n \in 0..MaxConds}

\* Which call of the two loops is made to fail; 0 for none.
FailPoints == 0..(MaxIssued + MaxConds)

CondUuids(cs) == {cs[i].uuid : i \in DOMAIN cs}
WithoutUuids(cs, us) == SelectSeq(cs, LAMBDA c : c.uuid \notin us)

\* PolicyCondition.Create for the first n conditions of the list want, the server
\* issuing UUIDs from next on.
CondsCreated(want, n, next) == [i \in 1..n |-> [uuid |-> next + i - 1, body |-> want[i]]]

PolFailed(p, o, srv, next) ==
    [p EXCEPT !.op = o, !.diag = "Client Error", !.srv = srv, !.next = next,
              !.prior = {}, !.before = {}, !.planned = <<>>, !.made = <<>>]

\* PolicyResource.Create for the planned conditions want: Policy.Create
\* returning c, the condition call numbered f failing, Policy.Get returning g.
PolCreateResult(p, want, c, f, g) ==
    LET nMade == IF f \in 1..Len(want) THEN f - 1 ELSE Len(want)
        conds == CondsCreated(want, nMade, p.next)
        next  == p.next + nMade
    IN  IF c # "ok" THEN PolFailed(p, "Create", p.srv, p.next)
        ELSE IF nMade < Len(want) \/ g # "ok"
             THEN [PolFailed(p, "Create", conds, next) EXCEPT !.exists = TRUE]
        ELSE [p EXCEPT !.exists = TRUE, !.srv = conds, !.next = next,
                       !.inState = TRUE, !.rec = conds, !.op = "Create", !.diag = "",
                       !.prior = {}, !.before = {}, !.planned = want, !.made = conds]

\* PolicyResource.Read, Policy.Get returning g: any error removes the
\* resource from state.
PolReadResult(p, g) ==
    IF g # "ok" \/ ~p.exists
    THEN [p EXCEPT !.op = "Read", !.diag = "", !.inState = FALSE, !.rec = <<>>,
                   !.prior = {}, !.before = {}, !.planned = <<>>, !.made = <<>>]
    ELSE [p EXCEPT !.op = "Read", !.diag = "", !.rec = p.srv,
                   !.prior = {}, !.before = {}, !.planned = <<>>, !.made = <<>>]

\* PolicyResource.Update to the planned conditions want: Policy.Update
\* returning u, then a PolicyCondition.Delete for each condition of the
\* state and a PolicyCondition.Create for each planned one, the call
\* numbered f failing, then Policy.Get returning g.  Deleting a condition
\* the server no longer holds fails.
PolUpdateResult_KeepsLastOld(p, want, u, f, g) ==
    LET old      == p.rec
        nDel     == Len(old)
        bad      == {i \in 1..nDel : old[i].uuid \notin CondUuids(p.srv)}
                       \cup (IF f \in 1..nDel THEN {f} ELSE {})
        firstBad == IF bad = {} THEN 0 ELSE CHOOSE i \in bad : \A k \in bad : i <= k
        nDeleted == IF firstBad = 0 THEN nDel ELSE firstBad - 1
        afterDel == WithoutUuids(p.srv, {old[i].uuid : i \in 1..(nDeleted - 1)})
        nMade    == IF f \in (nDel + 1)..(nDel + Len(want)) THEN f - nDel - 1 ELSE Len(want)
        conds    == CondsCreated(want, nMade, p.next)
        next     == p.next + nMade
    IN  IF u # "ok" \/ ~p.exists THEN PolFailed(p, "Update", p.srv, p.next)
        ELSE IF firstBad # 0 THEN PolFailed(p, "Update", afterDel, p.next)
        ELSE IF nMade < Len(want) \/ g # "ok"
             THEN PolFailed(p, "Update", afterDel \o conds, next)
        ELSE [p EXCEPT !.srv = afterDel \o conds, !.next = next,
                       !.rec = afterDel \o conds, !.op = "Update", !.diag = "",
                       !.prior = CondUuids(old), !.before = CondUuids(p.srv),
                       !.planned = want, !.made = conds]
PolUpdateResult(p, want, u, f, g) ==
    LET old      == p.rec
        nDel     == Len(old)
        bad      == {i \in 1..nDel : old[i].uuid \notin CondUuids(p.srv)}
                       \cup (IF f \in 1..nDel THEN {f} ELSE {})
        firstBad == IF bad = {} THEN 0 ELSE CHOOSE i \in bad : \A k \in bad : i <= k
        nDeleted == IF firstBad = 0 THEN nDel ELSE firstBad - 1
        afterDel == WithoutUuids(p.srv, {old[i].uuid : i \in 1..nDeleted})
        nMade    == IF f \in (nDel + 1)..(nDel + Len(want)) THEN f - nDel - 1 ELSE Len(want)
        conds    == CondsCreated(want, nMade, p.next)
        next     == p.next + nMade
    IN  IF u # "ok" \/ ~p.exists THEN PolFailed(p, "Update", p.srv, p.next)
        ELSE IF firstBad # 0 THEN PolFailed(p, "Update", afterDel, p.next)
        ELSE IF nMade < Len(want) \/ g # "ok"
             THEN PolFailed(p, "Update", afterDel \o conds, next)
        ELSE [p EXCEPT !.srv = afterDel \o conds, !.next = next,
                       !.rec = afterDel \o conds, !.op = "Update", !.diag = "",
                       !.prior = CondUuids(old), !.before = CondUuids(p.srv),
                       !.planned = want, !.made = conds]

\* PolicyResource.Delete, Policy.Delete returning d.
PolDeleteResult(p, d) ==
    IF d # "ok" \/ ~p.exists THEN PolFailed(p, "Delete", p.srv, p.next)
    ELSE [p EXCEPT !.exists = FALSE, !.srv = <<>>, !.inState = FALSE, !.rec = <<>>,
                   !.op = "Delete", !.diag = "",
                   !.prior = {}, !.before = {}, !.planned = <<>>, !.made = <<>>]

PolicyCreate ==
    /\ ~pol.inState
    /\ \E want \in CondPlans, c \in Outcomes, f \in FailPoints, g \in Outcomes :
          /\ pol.next + Len(want) <= MaxIssued + 1
          /\ pol' = PolCreateResult(pol, want, c, f, g)
    /\ UNCHANGED <<permVars, cp, ak, nr, np, pv, im>>

PolicyRead ==
    /\ pol.inState
    /\ \E g \in Outcomes : pol' = PolReadResult(pol, g)
    /\ UNCHANGED <<permVars, cp, ak, nr, np, pv, im>>

PolicyUpdate ==
    /\ pol.inState
    /\ \E want \in CondPlans, u \in Outcomes, f \in FailPoints, g \in Outcomes :
          /\ pol.next + Len(want) <= MaxIssued + 1
          /\ pol' = PolUpdateResult(pol, want, u, f, g)
    /\ UNCHANGED <<permVars, cp, ak, nr, np, pv, im>>

PolicyDelete ==
    /\ pol.inState
    /\ \E d \in Outcomes : pol' = PolDeleteResult(pol, d)
    /\ UNCHANGED <<permVars, cp, ak, nr, np, pv, im>>

\* Another client adds a condition to the policy.
PolicyExternalAdd ==
    /\ pol.exists
    /\ pol.next <= MaxIssued
    /\ \E b \in CondBodies :
          pol' = [pol EXCEPT !.srv = pol.srv \o <<[uuid |-> pol.next, body |-> b]>>,
                             !.next = pol.next + 1, !.op = "none", !.diag = "",
                             !.prior = {}, !.before = {}, !.planned = <<>>, !.made = <<>>]
    /\ UNCHANGED <<permVars, cp, ak, nr, np, pv, im>>

\* Another client removes a condition of the policy.
PolicyExternalRemove ==
    /\ pol.exists
    /\ \E x \in CondUuids(pol.srv) :
          pol' = [pol EXCEPT !.srv = WithoutUuids(pol.srv, {x}), !.op = "none", !.diag = "",
                             !.prior = {}, !.before = {}, !.planned = <<>>, !.made = <<>>]
    /\ UNCHANGED <<permVars, cp, ak, nr, np, pv, im>>

InitPolicy ==
    /\ InitPerms
    /\ kind = "team"
    /\ server = {}
    /\ cp = CpNone
    /\ ak = AkNone
    /\ nr = NrNone
    /\ np = NpNone
    /\ pv = PvNone
    /\ im = ImNone
    /\ pol = PolNone

NextPolicy ==
    \/ PolicyCreate
    \/ PolicyRead
    \/ PolicyUpdate
    \/ PolicyDelete
    \/ PolicyExternalAdd
    \/ PolicyExternalRemove

SpecPolicy == InitPolicy /\ [][NextPolicy]_vars

\* ------------------------------------------------------------------------
\* Observations on the calls of the invocation
\* ------------------------------------------------------------------------
NGrant(p) == Cardinality({i \in DOMAIN calls : calls[i].call = "grant" /\ calls[i].perm = p})
NRevoke(p) == Cardinality({i \in DOMAIN calls : calls[i].call = "revoke" /\ calls[i].perm = p})
NFetch == Cardinality({i \in DOMAIN calls : calls[i].call = "fetch"})
AnyFail == \E i \in DOMAIN calls : calls[i].res = "fail"
AllTookEffect == \A i \in DOMAIN calls : calls[i].res = "ok"
Rejected(p) == \E i \in DOMAIN calls : calls[i].perm = p /\ calls[i].res = "ignored"
PlanSeq == plan.add \o plan.remove
\* The handler got through both loops and issued its re-read.
ReachedFetch == pc = "fetch" \/ (pc = "done" /\ lastFetch # NoFetch)
Reconcile == op \in {"Create", "Update"}

\* ------------------------------------------------------------------------
\* C1
\* ------------------------------------------------------------------------
\* C1: after a Create or Update in which every call succeeded (and took
\* effect) and no other client ever wrote to the holder, the holder's
\* permission set on the server equals the desired set.
C1_RemoteEqualsDesired ==
    (Reconcile /\ Succeeded /\ AllTookEffect /\ ext = 0) => server = desired

\* ------------------------------------------------------------------------
\* C2
\* ------------------------------------------------------------------------
\* C2: Update diffs against the recorded set; it never issues a call for a
\* permission in both sets, never two calls for one permission, grants only
\* permissions of desired - current and revokes only permissions of
\* current - desired; once it is through its loops it has issued exactly one
\* grant for each permission of desired - current and exactly one revoke for
\* each permission of current - desired.
C2_UpdateCallsAreTheDiff ==
    op = "Update" =>
        /\ Running => current = recPerms
        /\ \A p \in Perms :
              /\ NGrant(p) <= 1
              /\ NRevoke(p) <= 1
              /\ NGrant(p) = 1 => p \in desired \ current
              /\ NRevoke(p) = 1 => p \in current \ desired
              /\ p \in desired \cap current => NGrant(p) + NRevoke(p) = 0
        /\ ReachedFetch =>
              \A p \in Perms :
                 /\ p \in desired \ current => NGrant(p) = 1
                 /\ p \in current \ desired => NRevoke(p) = 1

C2_Witness ==
    /\ op = "Update"
    /\ ReachedFetch
    /\ desired \ current # {}
    /\ current \ desired # {}
    /\ desired \cap current # {}

\* ------------------------------------------------------------------------
\* C3
\* ------------------------------------------------------------------------
\* C3: after a successful Create or Update the recorded set is the set the
\* final fetch returned, whatever the desired set was.
C3_RecordedIsFetched ==
    (Reconcile /\ Succeeded) =>
        /\ lastFetch.res = "ok"
        /\ inState
        /\ recPerms = lastFetch.perms

\* A successful reconcile whose fetch omits a permission whose grant
\* returned success.
C3_Witness ==
    /\ Reconcile
    /\ Succeeded
    /\ \E i \in DOMAIN calls :
          /\ calls[i].call = "grant"
          /\ calls[i].res # "fail"
          /\ calls[i].perm \notin lastFetch.perms
    /\ recPerms # desired

\* ------------------------------------------------------------------------
\* C4
\* ------------------------------------------------------------------------
\* C4: a failed grant or revoke call is the last call of its invocation, the
\* calls issued are a prefix of the plan (no compensating call), and what the
\* earlier calls did is still on the server when the invocation ends.
C4_StopAtFailureNoRollback ==
    /\ \A i \in DOMAIN calls :
          calls[i].res = "fail" => (i = Len(calls) /\ pc = "done")
    /\ \A i \in DOMAIN calls :
          calls[i].call # "fetch" => (i <= Len(PlanSeq) /\ calls[i].perm = PlanSeq[i])
    /\ (pc = "done" /\ AnyFail /\ ~extDuring) =>
          \A i \in DOMAIN calls :
             /\ (calls[i].call = "grant" /\ calls[i].res = "ok") => calls[i].perm \in server
             /\ (calls[i].call = "revoke" /\ calls[i].res = "ok") => calls[i].perm \notin server

\* The second of three planned calls failed after the first one took effect.
C4_Witness ==
    /\ Reconcile
    /\ pc = "done"
    /\ Len(PlanSeq) = 3
    /\ Len(calls) = 2
    /\ calls[1].call = "grant" /\ calls[1].res = "ok"
    /\ calls[1].perm \in added
    /\ calls[2].res = "fail"
    /\ calls[1].perm \in server
    /\ calls[1].perm \notin recPerms

\* ------------------------------------------------------------------------
\* C5
\* ------------------------------------------------------------------------
\* C5: an invocation one of whose calls failed has ended, and with an error.
C5_FailureIsReported ==
    AnyFail => (pc = "done" /\ HasError /\ ~Succeeded)

\* The re-read failed after every grant went through.
C5_Witness ==
    /\ Reconcile
    /\ pc = "done"
    /\ Len(calls) >= 2
    /\ calls[1].res = "ok"
    /\ calls[Len(calls)].call = "fetch"
    /\ calls[Len(calls)].res = "fail"
    /\ HasError

\* ------------------------------------------------------------------------
\* C6
\* ------------------------------------------------------------------------
\* C6: when the k-th planned grant or revoke call fails, the diagnostic is a
\* client error that names the permission of the k-th planned call, the kind
\* of call that failed, and the error the call returned.
C6_ErrorNamesFailedPermission ==
    \A k \in DOMAIN calls :
       (calls[k].res = "fail" /\ calls[k].call # "fetch") =>
          /\ diag.summary = "Client Error"
          /\ diag.perm = PlanSeq[k]
          /\ diag.err = calls[k].err
          /\ diag.verb = (IF calls[k].call = "grant" THEN "add" ELSE "remove")

\* The second of three planned grants failed.
C6_Witness ==
    /\ Len(plan.add) = 3
    /\ Len(calls) = 2
    /\ calls[2].call = "grant"
    /\ calls[2].res = "fail"
    /\ diag.perm = plan.add[2]
    /\ diag.perm # plan.add[1]

\* ------------------------------------------------------------------------
\* C7
\* ------------------------------------------------------------------------
\* C7 as stated: an Update for the desired set of the reconcile that
\* succeeded just before it issues no grant and no revoke call.
C7_SecondReconcileIssuesNothing ==
    repeat => \A i \in DOMAIN calls : calls[i].call = "fetch"

\* C7 amended: an Update for the desired set D of the reconcile that
\* succeeded just before it, run with that reconcile's recorded result as
\* current, issues no grant and no revoke call if that recorded result
\* equals D.
C7_SecondReconcileIssuesNothingIfConverged ==
    repeat =>
        /\ Running => current = recPerms
        /\ current = desired =>
              (plan.add = <<>> /\ plan.remove = <<>> /\ \A i \in DOMAIN calls : calls[i].call = "fetch")

C7_Witness ==
    /\ repeat
    /\ current = desired
    /\ desired # {}
    /\ Succeeded
    /\ NFetch = 1

\* ------------------------------------------------------------------------
\* C8
\* ------------------------------------------------------------------------
\* C8 as stated: after a reconcile all of whose calls succeeded, the recorded
\* set contains every desired permission the server did not reject and no
\* permission whose revoke took effect.
C8_ResultGuarantee ==
    (Reconcile /\ Succeeded) =>
        /\ \A p \in desired : ~Rejected(p) => p \in recPerms
        /\ \A p \in current \ desired : ~Rejected(p) => p \notin recPerms

\* C8 amended: after a reconcile all of whose calls succeeded and during
\* which no other client wrote to the holder, the recorded set contains
\* every permission of desired - current the server did not reject and no
\* permission of current - desired whose revoke took effect.
C8_ResultGuaranteeOfPlan ==
    (Reconcile /\ Succeeded /\ ~extDuring) =>
        /\ \A p \in desired \ current : ~Rejected(p) => p \in recPerms
        /\ \A p \in current \ desired : ~Rejected(p) => p \notin recPerms

\* A grant that took effect, a grant the server rejected and a revoke that
\* took effect, in one successful Update.
C8_Witness ==
    /\ op = "Update"
    /\ Succeeded
    /\ ~extDuring
    /\ \E i, j, k \in DOMAIN calls :
          /\ calls[i].call = "grant" /\ calls[i].res = "ok" /\ calls[i].perm \in recPerms
          /\ calls[j].call = "grant" /\ calls[j].res = "ignored" /\ calls[j].perm \notin recPerms
          /\ calls[k].call = "revoke" /\ calls[k].res = "ok" /\ calls[k].perm \notin recPerms

C10_CreateGrantsAllDesired ==
    op = "Create" =>
        /\ current = {}
        /\ \A p \in Perms :
              /\ NRevoke(p) = 0
              /\ NGrant(p) <= 1
              /\ NGrant(p) = 1 => p \in desired
        /\ ReachedFetch => \A p \in desired : NGrant(p) = 1

\* Create granted a permission the holder already had, on a holder that
\* also has a permission outside the desired set.
C10_Witness ==
    /\ op = "Create"
    /\ pc = "fetch"
    /\ ext = 0
    /\ AllTookEffect
    /\ Cardinality(desired) = 2
    /\ \E p \in desired : p \notin added
    /\ server \ desired # {}

\* ------------------------------------------------------------------------
\* C11
\* ------------------------------------------------------------------------
\* C11: an Update whose recorded set equals its desired set issues no grant
\* and no revoke call, goes straight to the fetch, has issued exactly one
\* fetch when it ends, and on success the recorded set is what the fetch
\* returned.
C11_NoopUpdateStillFetches ==
    (op = "Update" /\ current = desired /\ ParseHolder(kind, holder)) =>
        /\ \A p \in Perms : NGrant(p) = 0 /\ NRevoke(p) = 0
        /\ pc \in {"fetch", "done"}
        /\ pc = "done" => NFetch = 1
        /\ Succeeded => (inState /\ recPerms = lastFetch.perms)

\* A no-op Update whose fetch replaced the recorded set by a different one.
C11_Witness ==
    /\ op = "Update"
    /\ current = desired
    /\ desired # {}
    /\ Succeeded
    /\ NFetch = 1
    /\ recPerms # current

\* ------------------------------------------------------------------------
\* C12
\* ------------------------------------------------------------------------
\* C12: in one invocation no grant call follows a revoke call; a fetch is the
\* last call, comes after exactly the calls of the plan, each of which
\* returned success; and no call is issued twice.
C12_GrantsThenRevokesThenFetch ==
    /\ \A i, j \in DOMAIN calls :
          i < j => ~(calls[i].call = "revoke" /\ calls[j].call = "grant")
    /\ \A i \in DOMAIN calls :
          calls[i].call = "fetch" =>
             /\ i = Len(calls)
             /\ i = Len(PlanSeq) + 1
             /\ \A j \in 1..(i - 1) :
                   /\ calls[j].res # "fail"
                   /\ calls[j].perm = PlanSeq[j]
                   /\ calls[j].call = IF j <= Len(plan.add) THEN "grant" ELSE "revoke"
    /\ \A i, j \in DOMAIN calls :
          i < j => <<calls[i].call, calls[i].perm>> # <<calls[j].call, calls[j].perm>>

\* An Update that granted, then revoked, then fetched.
C12_Witness ==
    /\ op = "Update"
    /\ Succeeded
    /\ Len(plan.add) >= 1
    /\ Len(plan.remove) >= 1
    /\ Len(calls) = Len(PlanSeq) + 1
    /\ calls[Len(calls)].call = "fetch"

\* ------------------------------------------------------------------------
\* C13
\* ------------------------------------------------------------------------
\* C13: a Read whose read of the holder came back without error and without
\* the holder leaves the resource out of persisted state and reports no error.
C13_ReadDropsGoneHolder ==
    (op = "Read" /\ pc = "done" /\ lastFetch.res = "ok" /\ ~lastFetch.found) =>
        /\ ~inState
        /\ recPerms = {}
        /\ ~HasError

\* The holder was deleted by another client and a Read found out.
C13_Witness ==
    /\ op = "Read"
    /\ pc = "done"
    /\ ~holderExists
    /\ lastFetch.res = "ok"
    /\ ~lastFetch.found
    /\ ~inState
    /\ ~HasError

\* ------------------------------------------------------------------------
\* C14
\* ------------------------------------------------------------------------
\* C14: a Create, Update or Delete given a team identifier that is not a
\* UUID has ended with the parse error and has issued no remote call.
C14_MalformedHolderNoCalls ==
    (op \in {"Create", "Update", "Delete"} /\ kind = "team" /\ holder # GoodUUID) =>
        /\ pc = "done"
        /\ diag = ParseError
        /\ calls = <<>>
        /\ lastFetch = NoFetch
        /\ server = server0

\* A Delete with a malformed team identifier: nothing revoked, resource kept.
C14_Witness ==
    /\ op = "Delete"
    /\ holder = "not-a-uuid"
    /\ diag = ParseError
    /\ recPerms # {}
    /\ inState

\* ------------------------------------------------------------------------
\* C15
\* ------------------------------------------------------------------------
\* C15: when another client changed the holder's permissions during a Create
\* or Update, the calls issued are still those of the plan computed at entry
\* from the desired and recorded sets, in its order; an error is reported
\* only if a call returned one; and when no call failed the invocation ends
\* with the fetch and records what the fetch returned.
C15_RaceKeepsPlan ==
    (Reconcile /\ extDuring /\ holderExists) =>
        /\ Range(plan.add) = (IF op = "Create" THEN desired ELSE desired \ current)
        /\ Range(plan.remove) = (IF op = "Create" THEN {} ELSE current \ desired)
        /\ Len(calls) <= Len(PlanSeq) + 1
        /\ \A i \in DOMAIN calls :
              IF i <= Len(PlanSeq)
              THEN /\ calls[i].perm = PlanSeq[i]
                   /\ calls[i].call = IF i <= Len(plan.add) THEN "grant" ELSE "revoke"
              ELSE calls[i].call = "fetch"
        /\ HasError => AnyFail
        /\ (pc = "done" /\ ~AnyFail) =>
              /\ ~HasError
              /\ Len(calls) = Len(PlanSeq) + 1
              /\ inState
              /\ recPerms = lastFetch.perms

\* An Update from an accurate recorded set, every call of which took effect,
\* ends without error with a recorded set that is not the desired one.
C15_Witness ==
    /\ op = "Update"
    /\ extDuring
    /\ holderExists
    /\ current = server0
    /\ Succeeded
    /\ AllTookEffect
    /\ Len(plan.add) >= 1
    /\ recPerms # desired

\* ------------------------------------------------------------------------
\* C16
\* ------------------------------------------------------------------------
\* C16: after a Create or Update all of whose calls took effect, with no
\* write by another client during it, the server's set is the set at entry
\* plus the permissions to add minus the permissions to remove, and the
\* recorded set is the server's set: both are functions of the sets alone,
\* whatever the order in which the loops went through them.
C16_OrderIndependentResult ==
    (Reconcile /\ Succeeded /\ AllTookEffect /\ ~extDuring) =>
        /\ server = (server0 \cup (IF op = "Create" THEN desired ELSE desired \ current))
                       \ (IF op = "Create" THEN {} ELSE current \ desired)
        /\ recPerms = server

\* An Update that went through two grants in non-alphabetical order and a
\* revoke.
C16_Witness ==
    /\ op = "Update"
    /\ Succeeded
    /\ AllTookEffect
    /\ ~extDuring
    /\ plan.add = <<"VIEW_PORTFOLIO", "BOM_UPLOAD">>
    /\ plan.remove = <<"PORTFOLIO_MANAGEMENT">>
    /\ server0 = {"PORTFOLIO_MANAGEMENT"}

\* ------------------------------------------------------------------------
\* C17
\* ------------------------------------------------------------------------
\* C17: after a Create or Update of a config property that ended without
\* error and had a configured value, the value in state is the configured
\* value, whatever the type of the property.
C17_RecordedIsConfigured ==
    (cp.op \in {"Create", "Update"} /\ cp.diag = "" /\ cp.cfg # Null) =>
        /\ cp.inState
        /\ cp.recValue = cp.cfg

\* ------------------------------------------------------------------------
\* C18
\* ------------------------------------------------------------------------
\* C18: as long as a team API key is in state, its key attribute is the
\* value the key-generation call of its Create returned; and the only remote
\* calls of an Update are comment updates.
C18_KeyIsPreserved ==
    /\ ak.inState => (ak.recKey = ak.genKey /\ ak.recKey # NoKey)
    /\ ak.op = "Update" => \A i \in DOMAIN ak.calls : ak.calls[i].call = "comment"

\* A key that went through a Read and an Update that changed its comment.
C18_Witness ==
    /\ ak.inState
    /\ ak.since = {"Read", "Update"}
    /\ ak.op = "Update"
    /\ ak.calls # <<>>
    /\ ak.diag = ""
    /\ ak.recKey = Secret(ak.recId)

\* ------------------------------------------------------------------------
\* C19
\* ------------------------------------------------------------------------
\* C19: after a Create of a notification rule that ended without error, the
\* recorded notify_on is the configured one and each of enabled,
\* notify_children and log_successful_publish that is configured is recorded
\* with its configured value; the server holds the same values.
C19_CreateRecordsConfigured ==
    (nr.op = "Create" /\ nr.diag = "") =>
        /\ nr.inState
        /\ nr.rec.notifyOn = nr.cfg.notifyOn
        /\ nr.cfg.enabled # Null => nr.rec.enabled = (nr.cfg.enabled = "true")
        /\ nr.cfg.notifyChildren # Null => nr.rec.notifyChildren = (nr.cfg.notifyChildren = "true")
        /\ nr.cfg.logSuccessfulPublish # Null =>
              nr.rec.logSuccessfulPublish = (nr.cfg.logSuccessfulPublish = "true")
        /\ nr.exists /\ nr.srv = nr.rec

\* A Create whose four values all differ from the defaults of the create
\* call.
C19_Witness ==
    /\ nr.op = "Create"
    /\ nr.diag = ""
    /\ nr.cfg = [enabled |-> "false", notifyChildren |-> "false",
                 logSuccessfulPublish |-> "true", notifyOn |-> Events]
    /\ Len(nr.calls) = 2
    /\ nr.rec # RuleDefaults

\* ------------------------------------------------------------------------
\* C20
\* ------------------------------------------------------------------------
\* C20: no handler of the config-property resource changes whether the
\* property exists; a Create for a property the server does not have ends
\* with an error, the not-found error if the Get returned without error,
\* issues no update call and sets no state; a Delete issues no remote call,
\* reports no error and leaves the server's value as it was.
C20_NeverCreatesOrDeletes ==
    /\ cp.op # "none" => cp.exists = cp.before.exists
    /\ (cp.op = "Create" /\ ~cp.before.exists) =>
          /\ cp.diag # ""
          /\ ~cp.inState
          /\ \A i \in DOMAIN cp.calls : cp.calls[i].call # "update"
          /\ (cp.calls[1].res = "ok" => cp.diag = "Config Property Not Found")
    /\ cp.op = "Delete" =>
          /\ cp.calls = <<>>
          /\ cp.diag = ""
          /\ ~cp.inState
          /\ cp.value = cp.before.value

\* A Create for a property the server does not have, refused as not found.
C20_Witness ==
    /\ cp.op = "Create"
    /\ ~cp.exists
    /\ cp.cfg # Null
    /\ cp.diag = "Config Property Not Found"
    /\ Len(cp.calls) = 1

\* ------------------------------------------------------------------------
\* C26
\* ------------------------------------------------------------------------
\* C26: a Create or Update that ended with an error leaves persisted state as
\* it was at entry: nothing for Create, the recorded set it diffed against
\* for Update; what its successful calls did stays on the server (C4).
C26_FailureLeavesStateUntouched ==
    (Reconcile /\ pc = "done" /\ HasError) =>
        IF op = "Create" THEN ~inState /\ recPerms = {}
        ELSE inState /\ recPerms = current

\* An Update whose first grant took effect and whose second call failed: the
\* server has the new permission, state does not.
C26_Witness ==
    /\ op = "Update"
    /\ pc = "done"
    /\ HasError
    /\ Len(calls) = 2
    /\ calls[1].call = "grant" /\ calls[1].res = "ok"
    /\ calls[2].res = "fail"
    /\ calls[1].perm \in server \ server0
    /\ calls[1].perm \notin recPerms
    /\ recPerms = current

\* ------------------------------------------------------------------------
\* C27
\* ------------------------------------------------------------------------
\* C27: a Delete that got through its loop issued one revoke call for every
\* permission of the recorded set, whoever granted it; a Create issues no
\* revoke call, and when all its calls took effect and no other client wrote
\* during it, every permission the holder had at entry is in the set it
\* records.
C27_DeleteRevokesForeignToo ==
    /\ (op = "Delete" /\ Succeeded) =>
          \A p \in current : \E i \in DOMAIN calls :
             calls[i].call = "revoke" /\ calls[i].perm = p /\ calls[i].res # "fail"
    /\ op = "Create" => \A p \in Perms : NRevoke(p) = 0
    /\ (op = "Create" /\ Succeeded /\ AllTookEffect /\ ~extDuring) => server0 \subseteq recPerms

\* With no other client ever writing, a Delete took from the holder a
\* permission the resource had not granted.
C27_Witness ==
    /\ op = "Delete"
    /\ Succeeded
    /\ ext = 0
    /\ \E i \in DOMAIN calls :
          /\ calls[i].call = "revoke"
          /\ calls[i].res = "ok"
          /\ calls[i].held = "foreign"
          /\ calls[i].perm \in server0 \ server

\* ------------------------------------------------------------------------
\* C28
\* ------------------------------------------------------------------------
\* C28: a managed-user Create or Update whose final fetch returned without
\* error and without the user reports no error and records the empty set.
C28_UserGoneRecordsEmpty ==
    (kind = "user" /\ Reconcile /\ pc = "done" /\ lastFetch.res = "ok" /\ ~lastFetch.found) =>
        /\ ~HasError
        /\ inState
        /\ recPerms = {}

\* An Update with a desired set that is not empty, for a user another client
\* deleted.
C28_Witness ==
    /\ kind = "user"
    /\ op = "Update"
    /\ pc = "done"
    /\ ~holderExists
    /\ lastFetch.res = "ok"
    /\ ~lastFetch.found
    /\ desired # {}
    /\ inState
    /\ recPerms = {}

\* ------------------------------------------------------------------------
\* C23: a Read of a notification rule or of a notification publisher whose
\* UUID is absent from the list the server returned removes the resource
\* from state and reports no error.
\* ------------------------------------------------------------------------
C23_AbsentReadDropsQuietly ==
    /\ (nr.op = "Read" /\ ~nr.exists /\ nr.calls = <<CfgCall("list", "ok")>>) =>
            (nr.diag = "" /\ ~nr.inState)
    /\ (np.op = "Read" /\ ~np.exists /\ np.calls = <<CfgCall("list", "ok")>>) =>
            (np.diag = "" /\ ~np.inState)

\* ------------------------------------------------------------------------
\* C24: a Delete of a notification rule that is already absent from the
\* server succeeds without error, and issues no DELETE request.
\* ------------------------------------------------------------------------
C24_AbsentDeleteSucceeds ==
    (nr.op = "Delete" /\ ~nr.exists /\ nr.calls = <<CfgCall("list", "ok")>>) =>
        (nr.diag = "" /\ ~nr.inState)

\* ------------------------------------------------------------------------
\* C21: Configure succeeds only if the endpoint is not empty and exactly one
\* authentication method is fully given (an api_key that is not empty with
\* no username and no password, or a username and a password that are not
\* empty with no api_key); every other configuration is rejected with an
\* error before any client is created and before any login call.  A null
\* and an empty attribute both count as not given.
\* ------------------------------------------------------------------------
C21_ConfigureOnlyWithOneMethod ==
    pv.op = "Configure" =>
        LET c       == pv.cfg
            absent  == {Null, ""}
            keyOnly == c.apiKey \notin absent /\ c.username \in absent /\ c.password \in absent
            login   == c.apiKey \in absent /\ c.username \notin absent /\ c.password \notin absent
            valid   == c.endpoint \notin absent /\ (keyOnly \/ login)
        IN  /\ pv.ready => (valid /\ pv.diag = "")
            /\ ~valid => (~pv.ready /\ pv.diag # "" /\ pv.calls = <<>>)

\* Configure rejected an api_key given together with a username: no client,
\* no login.
C21_Witness ==
    /\ pv.op = "Configure"
    /\ pv.cfg.endpoint = "https://dtrack.example.com"
    /\ pv.cfg.apiKey = "x"
    /\ pv.cfg.username = "x"
    /\ pv.diag = "Conflicting Authentication Configuration"
    /\ pv.calls = <<>>
    /\ ~pv.ready

\* ------------------------------------------------------------------------
\* C22: ImportState of an ACL mapping or a project policy accepts an id
\* exactly when it splits on "/" into two parts that are both valid UUIDs;
\* it then records the id and, as the two component attributes, those two
\* UUIDs, so that importing the id Create wrote restores the pair of UUIDs
\* Create was given; every other id gives an error and writes no state.
\* ------------------------------------------------------------------------
C22_ImportSplitsIntoTwoUuids ==
    im.op = "ImportState" =>
        LET valid == /\ Len(im.req) = 2
                     /\ im.req[1].form \in {"canonical", "upper"}
                     /\ im.req[2].form \in {"canonical", "upper"}
        IN  /\ im.inState <=> valid
            /\ im.inState =>
                  /\ im.diag = ""
                  /\ im.id = im.req
                  /\ im.first = [uuid |-> im.req[1].uuid, form |-> "canonical"]
                  /\ im.second = [uuid |-> im.req[2].uuid, form |-> "canonical"]
            /\ ~im.inState =>
                  /\ im.diag # ""
                  /\ im.id = <<>>
                  /\ im.first = NoText
                  /\ im.second = NoText
            /\ im.created # <<>> =>
                  /\ im.inState
                  /\ im.id = <<im.first, im.second>>
                  /\ im.first.uuid = im.created[1].uuid
                  /\ im.second.uuid = im.created[2].uuid

\* The id Create wrote for a team given in upper case is imported: the same
\* two UUIDs come back, in canonical text.
C22_Witness ==
    /\ im.op = "ImportState"
    /\ im.res = "acl_mapping"
    /\ im.inState
    /\ im.created # <<>>
    /\ im.created[1].form = "upper"
    /\ im.first.form = "canonical"
    /\ im.first.uuid = im.created[1].uuid
    /\ im.second = im.created[2]
    /\ im.first # im.second

TypeOK ==
    /\ kind \in Kinds
    /\ server \subseteq Perms
    /\ recPerms \subseteq Perms
    /\ pc \in {"idle", "add", "remove", "fetch", "done"}
    /\ inv \in 0..MaxInvocations
    /\ ext \in 0..MaxExternal
    /\ holder \in {""} \cup HolderIds(kind)
    /\ server0 \subseteq Perms
    /\ cp.type \in CfgTypes \cup {""}
    /\ cp.value \in CfgValues \cup {""}
    /\ cp.recValue \in CfgValues \cup {"", Placeholder}
    /\ ak.n \in 0..MaxKeys
    /\ ak.keys \subseteq 1..MaxKeys
    /\ ak.recComment \in AkComments
    /\ nr.cfg \in RuleConfigs
    /\ nr.rec.notifyOn \subseteq Events

====
